---- MODULE Spec2Model ----
(***************************************************************************)
(* SimpleConsistentHash (consistent_hashing_demo.py): a hash ring mapping  *)
(* positions in [0, 1000) to node identifiers, with 3 virtual nodes per    *)
(* physical node, and the clockwise-successor lookup.                      *)
(***************************************************************************)
EXTENDS Integers, Sequences, FiniteSets, TLC

VARIABLES hashtab, nodes, hash_ring, call, pre

vars == <<hashtab, nodes, hash_ring, call, pre>>

-----------------------------------------------------------------------------
(* Inputs and bounds *)

\* Node identifiers the caller passes to __init__, add_node and remove_node.
NodeIds == {"node1", "node2"}

\* The same with a third node, for runs about three nodes.
MoreNodeIds == NodeIds \cup {"node3"}

\* Largest value of the built-in hash() in a run; the smallest is -1.
MaxRawHash == 1

\* Longest list passed to __init__.
MaxInitLen == 2

\* `% 1000` in _hash.
Modulus == 1000

\* `range(3)` in add_node and remove_node.
VirtualNodes == 3

\* Values the built-in hash() takes (it is signed).
RawHashes == (-1)..MaxRawHash

\* f"{node}:{i}" for every node and replica index.
VNodeKeyOf ==
    [node \in MoreNodeIds |->
        [i \in 0..(VirtualNodes - 1) |-> node \o ":" \o ToString(i)]]

VNodeKey(node, i) == VNodeKeyOf[node][i]

VNodeKeys(ids) == {VNodeKey(n, i) : n \in ids, i \in 0..(VirtualNodes - 1)}

\* Keys the caller looks up; a key may be any string, a virtual node's too.
Keys == {"key1", "node1:0"}

\* Every string that is hashed in a run whose caller names the nodes ids.
Strings(ids) == VNodeKeys(ids) \cup Keys

\* The node identifiers the caller of this run names: those whose virtual
\* node keys the run's hash() is defined on.
Callers == {n \in MoreNodeIds : VNodeKey(n, 0) \in DOMAIN hashtab}

\* The keys the caller of this run looks up.
LookedUp == Keys \cap DOMAIN hashtab

\* A hash() that does not decrease along the replica indexes of each node.
\* add_node and remove_node go through the positions of one node only, so
\* every set of positions a node can have is the set of such a table.
Ordered(table, ids) ==
    \A n \in ids : \A i \in 0..(VirtualNodes - 2) :
        table[VNodeKey(n, i)] <= table[VNodeKey(n, i + 1)]

-----------------------------------------------------------------------------
(* Values returned or raised by a call *)

None == [kind |-> "None", val |-> ""]

Str(s) == [kind |-> "str", val |-> s]

KeyError(node) == [kind |-> "KeyError", val |-> node]

\* The empty dict.
EmptyRing == [p \in {} |-> ""]

-----------------------------------------------------------------------------
(* The methods *)

_hash(key) == hashtab[key] % Modulus

\* Mutant of DictSet: assigns only to positions already in the dict.
DictSetExisting(ring, pos, node) ==
    [p \in DOMAIN ring |-> IF p = pos THEN node ELSE ring[p]]

\* Mutant of DictSet: self.hash_ring.setdefault(hash_key, node), an occupied
\* position keeps its owner.
DictSetDefault(ring, pos, node) ==
    LET dict == ring
        key == pos
    IN  [p \in (DOMAIN dict) \cup {key} |-> IF p \in DOMAIN dict THEN dict[p] ELSE node]

\* Mutant of DictSet: a position another node holds is vacated instead of
\* taken over.
DictSetEvict(ring, pos, node) ==
    LET dict == ring
        key == pos
    IN  IF key \in DOMAIN dict /\ dict[key] # node
        THEN [p \in (DOMAIN dict) \ {key} |-> dict[p]]
        ELSE [p \in (DOMAIN dict) \cup {key} |-> IF p = key THEN node ELSE dict[p]]

\* self.hash_ring[hash_key] = node
DictSet(ring, pos, node) ==
    LET dict == ring
        key == pos
    IN  [p \in (DOMAIN dict) \cup {key} |-> IF p = key THEN node ELSE dict[p]]

\* Mutant of DictPop: self.hash_ring.get(hash_key, None), nothing is deleted.
DictGet(ring, pos) == ring

\* Mutant of DictPop: self.hash_ring.pop(min(self.hash_ring), None), the
\* smallest position is deleted whatever hash_key is.
DictPopMin(ring, pos) ==
    LET dict == ring
    IN  [p \in {q \in DOMAIN dict : \E r \in DOMAIN dict : r < q} |-> dict[p]]

\* self.hash_ring.pop(hash_key, None)
DictPop(ring, pos) ==
    LET dict == ring
        key == pos
    IN  [p \in (DOMAIN dict) \ {key} |-> dict[p]]

\* Mutant of AddLoop: range(2), the last virtual node is not placed.
RECURSIVE AddLoopShort(_, _, _)
AddLoopShort(ring, node, i) ==
    IF i >= VirtualNodes - 1 THEN ring
    ELSE AddLoopShort(DictSet(ring, _hash(VNodeKey(node, i)), node), node, i + 1)

\* Mutant of AddLoop: range(1, 3), the first virtual node is not placed.
RECURSIVE AddLoopFrom1(_, _, _)
AddLoopFrom1(ring, node, i) ==
    IF i >= VirtualNodes THEN ring
    ELSE IF i = 0 THEN AddLoopFrom1(ring, node, 1)
    ELSE AddLoopFrom1(DictSet(ring, _hash(VNodeKey(node, i)), node), node, i + 1)

\* The loop of add_node from replica index i on.
RECURSIVE AddLoop(_, _, _)
AddLoop(ring, node, i) ==
    IF i >= VirtualNodes THEN ring
    ELSE AddLoop(DictSet(ring, _hash(VNodeKey(node, i)), node), node, i + 1)

\* Mutant of PopLoop: range(2), the last virtual node is not removed.
RECURSIVE PopLoopShort(_, _, _)
PopLoopShort(ring, node, i) ==
    IF i >= VirtualNodes - 1 THEN ring
    ELSE PopLoopShort(DictPop(ring, _hash(VNodeKey(node, i))), node, i + 1)

\* Mutant of PopLoop: range(1, 3), the first virtual node is not removed.
RECURSIVE PopLoopFrom1(_, _, _)
PopLoopFrom1(ring, node, i) ==
    IF i >= VirtualNodes THEN ring
    ELSE IF i = 0 THEN PopLoopFrom1(ring, node, 1)
    ELSE PopLoopFrom1(DictPop(ring, _hash(VNodeKey(node, i))), node, i + 1)

\* The loop of remove_node from replica index i on.
RECURSIVE PopLoop(_, _, _)
PopLoop(ring, node, i) ==
    IF i >= VirtualNodes THEN ring
    ELSE PopLoop(DictPop(ring, _hash(VNodeKey(node, i))), node, i + 1)

\* sorted(self.hash_ring.keys())
RECURSIVE Sorted(_)
Sorted(S) ==
    IF S = {} THEN <<>>
    ELSE LET m == CHOOSE x \in S : \A y \in S : x <= y
         IN  <<m>> \o Sorted(S \ {m})

\* Mutant of Scan: the comparison is strict (hash_key < pos).
RECURSIVE ScanStrict(_, _, _, _)
ScanStrict(ring, sorted_positions, hash_key, i) ==
    IF i > Len(sorted_positions) THEN ring[sorted_positions[1]]
    ELSE IF hash_key < sorted_positions[i] THEN ring[sorted_positions[i]]
    ELSE ScanStrict(ring, sorted_positions, hash_key, i + 1)

\* Mutant of Scan: no wrap-around, the last position is returned instead.
RECURSIVE ScanNoWrap(_, _, _, _)
ScanNoWrap(ring, sorted_positions, hash_key, i) ==
    IF i > Len(sorted_positions) THEN ring[sorted_positions[Len(sorted_positions)]]
    ELSE IF hash_key <= sorted_positions[i] THEN ring[sorted_positions[i]]
    ELSE ScanNoWrap(ring, sorted_positions, hash_key, i + 1)

\* The scan of get_node over sorted_positions from index i on, with the
\* wrap-around to sorted_positions[0] after the loop.
RECURSIVE Scan(_, _, _, _)
Scan(ring, sorted_positions, hash_key, i) ==
    IF i > Len(sorted_positions) THEN ring[sorted_positions[1]]
    ELSE IF hash_key <= sorted_positions[i] THEN ring[sorted_positions[i]]
    ELSE Scan(ring, sorted_positions, hash_key, i + 1)

\* Mutant of Lookup: hash(key) is used without the `% 1000` of _hash.
LookupRaw(ring, key) ==
    IF DOMAIN ring = {} THEN None
    ELSE Str(Scan(ring, Sorted(DOMAIN ring), hashtab[key], 1))

\* The value get_node(key) returns on a ring.
Lookup(ring, key) ==
    IF DOMAIN ring = {} THEN None
    ELSE Str(Scan(ring, Sorted(DOMAIN ring), _hash(key), 1))

\* Mutant of AddNodes: self.nodes.add(node) is missing.
AddNodesNone(ns, node) == ns

\* The node set after self.nodes.add(node).
AddNodes(ns, node) == ns \cup {node}

\* Mutant of SetRemoveRaises: nodes.discard(node), which never raises.
SetDiscardRaises(ns, node) == FALSE

\* nodes.remove(node) raises KeyError when node is not a member.
SetRemoveRaises(ns, node) == node \notin ns

add_node(node) ==
    /\ hash_ring' = AddLoop(hash_ring, node, 0)
    /\ nodes' = AddNodes(nodes, node)
    /\ call' = [op |-> "add_node", arg |-> node, res |-> None]
    /\ pre' = [nodes |-> nodes, hash_ring |-> hash_ring]
    /\ UNCHANGED hashtab

remove_node(node) ==
    /\ hash_ring' = PopLoop(hash_ring, node, 0)
    /\ IF SetRemoveRaises(nodes, node)
       THEN /\ nodes' = nodes
            /\ call' = [op |-> "remove_node", arg |-> node, res |-> KeyError(node)]
       ELSE /\ nodes' = nodes \ {node}
            /\ call' = [op |-> "remove_node", arg |-> node, res |-> None]
    /\ pre' = [nodes |-> nodes, hash_ring |-> hash_ring]
    /\ UNCHANGED hashtab

\* Mutant of get_node: the first position is taken with
\* self.hash_ring.pop(sorted_positions[0]), which deletes it.
get_node_pop(key) ==
    /\ call' = [op |-> "get_node", arg |-> key, res |-> Lookup(hash_ring, key)]
    /\ pre' = [nodes |-> nodes, hash_ring |-> hash_ring]
    /\ hash_ring' = IF DOMAIN hash_ring = {} THEN hash_ring
                    ELSE DictPop(hash_ring, Sorted(DOMAIN hash_ring)[1])
    /\ UNCHANGED <<hashtab, nodes>>

get_node(key) ==
    /\ call' = [op |-> "get_node", arg |-> key, res |-> Lookup(hash_ring, key)]
    /\ pre' = [nodes |-> nodes, hash_ring |-> hash_ring]
    /\ UNCHANGED <<hashtab, nodes, hash_ring>>

\* Lists of node identifiers of length at most n.
RECURSIVE ListsUpTo(_)
ListsUpTo(n) ==
    IF n = 0 THEN {<<>>}
    ELSE LET shorter == ListsUpTo(n - 1)
         IN  shorter \cup {Append(l, x) : l \in shorter, x \in Callers}

\* The arguments of __init__: nothing (nodes=None) or a list.
InitArgs ==
    {[given |-> FALSE, list |-> <<>>]}
        \cup {[given |-> TRUE, list |-> l] : l \in ListsUpTo(MaxInitLen)}

\* Mutant of InitRing: the list is gone through from its end
\* (for node in reversed(nodes)).
RECURSIVE InitRingReversed(_, _, _)
InitRingReversed(ring, list, i) ==
    IF i > Len(list) THEN ring
    ELSE InitRingReversed(AddLoop(ring, list[Len(list) + 1 - i], 0), list, i + 1)

\* The ring after __init__'s loop has added list[i..].
RECURSIVE InitRing(_, _, _)
InitRing(ring, list, i) ==
    IF i > Len(list) THEN ring
    ELSE InitRing(AddLoop(ring, list[i], 0), list, i + 1)

RECURSIVE InitNodes(_, _, _)
InitNodes(ns, list, i) ==
    IF i > Len(list) THEN ns
    ELSE InitNodes(AddNodes(ns, list[i]), list, i + 1)

\* The state __init__ leaves, the built-in hash() being table.
Constructed(table) ==
    /\ hashtab = table
    /\ \E a \in InitArgs :
          /\ hash_ring = InitRing(EmptyRing, a.list, 1)
          /\ nodes = InitNodes({}, a.list, 1)
          /\ call = [op |-> "__init__", arg |-> a, res |-> None]
    /\ pre = [nodes |-> {}, hash_ring |-> EmptyRing]

Init == \E table \in [Strings(NodeIds) -> RawHashes] : Constructed(table)

Next ==
    \/ \E node \in Callers : add_node(node)
    \/ \E node \in Callers : remove_node(node)
    \/ \E key \in LookedUp : get_node(key)

Spec == Init /\ [][Next]_vars

\* Runs whose caller names three nodes and looks up "node1:0" only; their
\* hash() tables are the ordered ones.
Init3 ==
    \E table \in {t \in [VNodeKeys(MoreNodeIds) -> RawHashes] : Ordered(t, MoreNodeIds)} :
        Constructed(table)

Spec3 == Init3 /\ [][Next]_vars

\* Values of hash() with room for the virtual nodes of two nodes at distinct
\* positions.
WideHashes == (-1)..(MaxRawHash + VirtualNodes)

\* Runs whose caller names two nodes and looks up "node1:0" only; their
\* hash() tables are the ordered ones over the wide range.
InitWide ==
    \E table \in {t \in [VNodeKeys(NodeIds) -> WideHashes] : Ordered(t, NodeIds)} :
        Constructed(table)

SpecWide == InitWide /\ [][Next]_vars

-----------------------------------------------------------------------------
(* Properties *)

\* The ring positions of node's virtual nodes.
Positions(node) == {_hash(VNodeKey(node, i)) : i \in 0..(VirtualNodes - 1)}

Min(S) == CHOOSE x \in S : \A y \in S : x <= y

\* The last call was remove_node and it raised.
RemoveFailed == call.op = "remove_node" /\ call.res.kind = "KeyError"

\* The last call was remove_node and it returned.
RemoveReturned == call.op = "remove_node" /\ call.res = None

\* The positions of the removed node that another node held when remove_node
\* was called.
HeldByOther ==
    {p \in Positions(call.arg) \cap DOMAIN pre.hash_ring : pre.hash_ring[p] # call.arg}

\* C1: a remove_node that raises leaves the node set and the ring as they
\* were before the call.
C1_FailedRemoveKeepsState ==
    RemoveFailed => (nodes = pre.nodes /\ hash_ring = pre.hash_ring)

\* C2: remove_node raises KeyError exactly when the node is not in the node
\* set, and returns normally when it is; __init__, add_node and get_node
\* never raise.
C2_RemoveRaisesIffAbsent ==
    /\ call.op = "remove_node" =>
          /\ call.res = KeyError(call.arg) <=> call.arg \notin pre.nodes
          /\ call.res = None <=> call.arg \in pre.nodes
    /\ call.op # "remove_node" => call.res.kind # "KeyError"

C2_Witness ==
    /\ RemoveFailed
    /\ pre.nodes # {}
    /\ call.arg \notin pre.nodes

\* C3: when some occupied position is >= hash(k), get_node(k) returns the
\* owner of the smallest such position (hash(k) itself when it is occupied).
C3_Successor ==
    call.op = "get_node" =>
        LET above == {p \in DOMAIN pre.hash_ring : p >= _hash(call.arg)}
        IN  above # {} => call.res = Str(pre.hash_ring[Min(above)])

C3_Witness ==
    /\ call.op = "get_node"
    /\ _hash(call.arg) \in DOMAIN pre.hash_ring
    /\ \E p, q \in DOMAIN pre.hash_ring :
          /\ p < _hash(call.arg)
          /\ _hash(call.arg) < q
          /\ pre.hash_ring[p] # pre.hash_ring[_hash(call.arg)]
          /\ pre.hash_ring[q] # pre.hash_ring[_hash(call.arg)]
    /\ call.res = Str(pre.hash_ring[_hash(call.arg)])

\* C4: when hash(k) is greater than every occupied position of a non-empty
\* ring, get_node(k) returns the owner of the smallest occupied position.
C4_WrapAround ==
    (/\ call.op = "get_node"
     /\ DOMAIN pre.hash_ring # {}
     /\ \A p \in DOMAIN pre.hash_ring : _hash(call.arg) > p)
        => call.res = Str(pre.hash_ring[Min(DOMAIN pre.hash_ring)])

C4_Witness ==
    /\ call.op = "get_node"
    /\ Cardinality(DOMAIN pre.hash_ring) >= 2
    /\ \A p \in DOMAIN pre.hash_ring : _hash(call.arg) > p
    /\ \E p \in DOMAIN pre.hash_ring :
          pre.hash_ring[p] # pre.hash_ring[Min(DOMAIN pre.hash_ring)]
    /\ call.res = Str(pre.hash_ring[Min(DOMAIN pre.hash_ring)])

\* C5: the ring has an occupied position exactly when the node set has a
\* member.
C5_RingEmptyIffNoNodes == (DOMAIN hash_ring # {}) <=> (nodes # {})

\* The last call has called add_node: add_node itself, or __init__ on a
\* non-empty list.
AddedLast ==
    \/ call.op = "add_node"
    \/ call.op = "__init__" /\ Len(call.arg.list) > 0

\* C6: in the state that follows an add_node call, get_node returns a node
\* identifier, not None, for every key.
C6_Coverage ==
    AddedLast =>
        \A k \in LookedUp :
            LET found == Lookup(hash_ring, k)
            IN  found.kind = "str" /\ found.val \in Callers

C6_Witness ==
    /\ call.op = "add_node"
    /\ pre.hash_ring = EmptyRing
    /\ \A k \in LookedUp : Lookup(hash_ring, k) = Str(call.arg)

\* C7: remove_node of the only node of the node set leaves the ring empty,
\* and get_node then returns None for every key.
C7_LastNodeEmptiesRing ==
    (call.op = "remove_node" /\ pre.nodes = {call.arg}) =>
        /\ DOMAIN hash_ring = {}
        /\ \A k \in LookedUp : Lookup(hash_ring, k) = None

C7_Witness ==
    /\ RemoveReturned
    /\ pre.nodes = {call.arg}
    /\ Cardinality(DOMAIN pre.hash_ring) = VirtualNodes
    /\ hash_ring = EmptyRing

\* No virtual node of c is at a position of a virtual node of a node of ns.
NoCollision(c, ns) == \A m \in ns : Positions(c) \cap Positions(m) = {}

\* The last call was add_node(C) on a ring holding two nodes A and B, C not
\* among them and colliding with neither.
AddedThird ==
    /\ call.op = "add_node"
    /\ Cardinality(pre.nodes) = 2
    /\ call.arg \notin pre.nodes
    /\ NoCollision(call.arg, pre.nodes)

\* C8: on a ring holding two nodes, add_node(C) of a third node that collides
\* with neither, followed by remove_node(C), restores the ring and the node
\* set that add_node(C) found.
C8_AddRemoveRoundTrip ==
    [][(AddedThird /\ remove_node(call.arg)) =>
          /\ hash_ring' = pre.hash_ring
          /\ nodes' = pre.nodes
          /\ call'.res = None]_vars

C8_Witness ==
    /\ RemoveReturned
    /\ Cardinality(nodes) = 2
    /\ call.arg \notin nodes
    /\ NoCollision(call.arg, nodes)
    /\ pre.nodes = AddNodes(nodes, call.arg)
    /\ pre.hash_ring = AddLoop(hash_ring, call.arg, 0)
    /\ \E p, q \in DOMAIN hash_ring : hash_ring[p] # hash_ring[q]

\* The last call was add_node of a node already in the node set.
AddedAgain == call.op = "add_node" /\ call.arg \in pre.nodes

\* Every position of node is mapped to node in ring.
OwnsAll(ring, node) ==
    \A p \in Positions(node) : p \in DOMAIN ring /\ ring[p] = node

\* C9 as stated: add_node of a node already in the node set leaves the ring
\* and the node set unchanged.
C9_DuplicateAddKeepsRing ==
    AddedAgain => (hash_ring = pre.hash_ring /\ nodes = pre.nodes)

\* C9 amended: add_node of a node n already in the node set leaves the node
\* set unchanged, maps every position of n to n, and leaves every other
\* position as it was; the ring is unchanged when n held all its positions.
C9_DuplicateAddRewrites ==
    AddedAgain =>
        /\ nodes = pre.nodes
        /\ OwnsAll(hash_ring, call.arg)
        /\ DOMAIN hash_ring = (DOMAIN pre.hash_ring) \cup Positions(call.arg)
        /\ \A p \in (DOMAIN pre.hash_ring) \ Positions(call.arg) :
              hash_ring[p] = pre.hash_ring[p]
        /\ OwnsAll(pre.hash_ring, call.arg) => hash_ring = pre.hash_ring

C9_Witness ==
    /\ AddedAgain
    /\ ~OwnsAll(pre.hash_ring, call.arg)
    /\ OwnsAll(hash_ring, call.arg)
    /\ hash_ring # pre.hash_ring
    /\ Cardinality(pre.nodes) = 2

\* C10: a position of a registered node n that another node m holds when
\* remove_node(n) is called is still occupied and still mapped to m after
\* the call.
C10_RemoveKeepsOthersPositions ==
    RemoveReturned =>
        \A p \in HeldByOther : p \in DOMAIN hash_ring /\ hash_ring[p] = pre.hash_ring[p]

\* The positions whose occupancy or owner differs between two rings.
Changed(r1, r2) ==
    {p \in (DOMAIN r1) \cup (DOMAIN r2) :
        \/ p \notin DOMAIN r1
        \/ p \notin DOMAIN r2
        \/ r1[p] # r2[p]}

\* C11: after add_node(n), n is in the node set, every position hash("n:i")
\* is mapped to n whoever held it before, and every other position has the
\* occupancy and the owner it had before the call.
C11_AddPostcondition ==
    call.op = "add_node" =>
        /\ call.arg \in nodes
        /\ OwnsAll(hash_ring, call.arg)
        /\ Changed(pre.hash_ring, hash_ring) \subseteq Positions(call.arg)

C11_Witness ==
    /\ call.op = "add_node"
    /\ call.arg \notin pre.nodes
    /\ \E p \in Positions(call.arg) \cap DOMAIN pre.hash_ring :
          pre.hash_ring[p] # call.arg /\ hash_ring[p] = call.arg
    /\ \E p \in (DOMAIN pre.hash_ring) \ Positions(call.arg) :
          hash_ring[p] = pre.hash_ring[p]

\* C12: after a remove_node(n) that returns, n is not in the node set and no
\* ring position is mapped to n.
C12_RemovePostcondition ==
    RemoveReturned =>
        /\ call.arg \notin nodes
        /\ \A p \in DOMAIN hash_ring : hash_ring[p] # call.arg

C12_Witness ==
    /\ RemoveReturned
    /\ Cardinality({p \in DOMAIN pre.hash_ring : pre.hash_ring[p] = call.arg}) >= 2
    /\ hash_ring # EmptyRing

\* The positions mapped to node in ring.
Owned(ring, node) == {p \in DOMAIN ring : ring[p] = node}

\* The virtual nodes of node are at distinct positions, none of them the
\* position of a virtual node of another node the caller names.
Uncollided(node) ==
    /\ Cardinality(Positions(node)) = VirtualNodes
    /\ NoCollision(node, Callers \ {node})

\* C13: every node of the node set owns at most V ring positions, and
\* exactly V when its virtual nodes collide with no virtual node (of itself
\* or of another node passed to add_node or remove_node).
C13_EntryCount ==
    \A n \in nodes :
        /\ Cardinality(Owned(hash_ring, n)) <= VirtualNodes
        /\ Uncollided(n) => Cardinality(Owned(hash_ring, n)) = VirtualNodes

C13_Witness ==
    /\ Cardinality(nodes) = 2
    /\ \A n \in nodes : Uncollided(n) /\ Owned(hash_ring, n) = Positions(n)
    /\ call.op = "add_node"
    /\ call.arg \in pre.nodes

\* The owner of the clockwise successor of position h on ring, None on the
\* empty ring: the result of a lookup, stated from the ring's contents.
Successor(ring, h) ==
    IF DOMAIN ring = {} THEN None
    ELSE LET above == {p \in DOMAIN ring : p >= h}
         IN  IF above # {} THEN Str(ring[Min(above)])
             ELSE Str(ring[Min(DOMAIN ring)])

\* C14: the result of get_node(k) is determined by the ring's contents and
\* hash(k) alone (it is the successor's owner, whatever calls built the
\* ring), and a key with the same hash gets the same result.
C14_LookupDeterminism ==
    call.op = "get_node" =>
        /\ call.res = Successor(pre.hash_ring, _hash(call.arg))
        /\ \A k \in LookedUp :
              _hash(k) = _hash(call.arg) => Lookup(pre.hash_ring, k) = call.res

C14_Witness ==
    /\ call.op = "get_node"
    /\ \E k \in LookedUp :
          /\ k # call.arg
          /\ _hash(k) = _hash(call.arg)
          /\ Lookup(pre.hash_ring, k) = call.res
    /\ \E p, q \in DOMAIN pre.hash_ring : pre.hash_ring[p] # pre.hash_ring[q]
    /\ call.res.kind = "str"

\* C15: a get_node call leaves the ring and the node set unchanged, on the
\* empty ring too, so a second get_node(k) right after a first returns the
\* same result.
C15_LookupReadOnly ==
    [][call'.op = "get_node" =>
          /\ nodes' = nodes
          /\ hash_ring' = hash_ring
          /\ pre'.nodes = nodes
          /\ pre'.hash_ring = hash_ring
          /\ (call.op = "get_node" /\ call.arg = call'.arg) => call'.res = call.res]_vars

C15_Witness ==
    /\ call.op = "get_node"
    /\ hash_ring = pre.hash_ring
    /\ nodes = pre.nodes
    /\ Cardinality(DOMAIN hash_ring) >= 2
    /\ call.res = Lookup(hash_ring, call.arg)

Max(S) == CHOOSE x \in S : \A y \in S : x >= y

\* The indexes of the elements of list that have a virtual node at p.
IndexesAt(list, p) == {i \in 1..Len(list) : p \in Positions(list[i])}

\* The last call was __init__ on two different nodes that collide.
ConstructedColliding ==
    /\ call.op = "__init__"
    /\ Len(call.arg.list) = 2
    /\ call.arg.list[1] # call.arg.list[2]
    /\ Positions(call.arg.list[1]) \cap Positions(call.arg.list[2]) # {}

\* C16: __init__ without argument or on an empty list leaves an empty ring
\* and an empty node set; __init__(list) leaves the node set of the list's
\* elements and a ring whose positions are those of the elements, each owned
\* by the last element of the list that has a virtual node there; and
\* add_node(n) on the state of __init__(list) gives the state of
\* __init__(list + [n]).
C16_Construction ==
    /\ call.op = "__init__" =>
          LET list == call.arg.list
          IN  /\ (~call.arg.given \/ list = <<>>) =>
                    (hash_ring = EmptyRing /\ nodes = {})
              /\ nodes = {list[i] : i \in 1..Len(list)}
              /\ DOMAIN hash_ring = UNION {Positions(list[i]) : i \in 1..Len(list)}
              /\ \A p \in DOMAIN hash_ring : hash_ring[p] = list[Max(IndexesAt(list, p))]
    /\ call.op = "add_node" =>
          \A list \in ListsUpTo(MaxInitLen - 1) :
              (/\ pre.nodes = InitNodes({}, list, 1)
               /\ pre.hash_ring = InitRing(EmptyRing, list, 1))
                  => /\ hash_ring = InitRing(EmptyRing, Append(list, call.arg), 1)
                     /\ nodes = InitNodes({}, Append(list, call.arg), 1)

C16_Witness ==
    /\ ConstructedColliding
    /\ \E p \in Positions(call.arg.list[1]) \cap Positions(call.arg.list[2]) :
          hash_ring[p] = call.arg.list[2]
    /\ \E p \in DOMAIN hash_ring : hash_ring[p] = call.arg.list[1]

\* C17: every occupied position is mapped to a node of the node set and is
\* the position of one of that node's virtual nodes, after a remove_node
\* that raised and under collisions too; so a node that get_node returns is
\* in the node set.
C17_Ownership ==
    /\ \A p \in DOMAIN hash_ring :
          /\ hash_ring[p] \in nodes
          /\ p \in Positions(hash_ring[p])
    /\ (call.op = "get_node" /\ call.res.kind = "str") => call.res.val \in nodes

C17_Witness ==
    /\ RemoveFailed
    /\ hash_ring # pre.hash_ring
    /\ hash_ring # EmptyRing
    /\ \A p \in DOMAIN hash_ring : hash_ring[p] \in nodes

RemovedUncollided ==
    /\ RemoveReturned
    /\ NoCollision(call.arg, pre.nodes \ {call.arg})

\* C19: after such a remove_node(n), every key that get_node resolved to a
\* node other than n before the call resolves to the same node.
C19_LeaveKeepsOtherKeys ==
    RemovedUncollided =>
        \A k \in LookedUp :
            Lookup(pre.hash_ring, k) # Str(call.arg) =>
                Lookup(hash_ring, k) = Lookup(pre.hash_ring, k)

C19_Witness ==
    /\ RemovedUncollided
    /\ \E k \in LookedUp :
          /\ Lookup(pre.hash_ring, k) = Str(call.arg)
          /\ Lookup(hash_ring, k).kind = "str"
    /\ \E k \in LookedUp :
          /\ Lookup(pre.hash_ring, k).kind = "str"
          /\ Lookup(pre.hash_ring, k) # Str(call.arg)
          /\ Lookup(hash_ring, k) = Lookup(pre.hash_ring, k)

====
